---- MODULE Spec2Model ----
(***************************************************************************)
(* Recipe API: the recipe aggregate's write path (nested tags and          *)
(* ingredients resolved by get-or-create per authenticated user), the      *)
(* per-user queryset scoping of the recipe and tag endpoints, the          *)
(* responses the endpoints give, and the wait_for_db management command.   *)
(***************************************************************************)
EXTENDS Integers, Sequences, FiniteSets, TLC

VARIABLES
    recipes,        \* Recipe table: id -> [user, title, image, tags, ingredients]
    tags,           \* Tag table: id -> [user, name]
    ingredients,    \* Ingredient table: id -> [user, name]
    nextRecipeId,   \* next auto-increment primary key of the Recipe table
    nextTagId,      \* next auto-increment primary key of the Tag table
    nextIngredientId, \* next auto-increment primary key of the Ingredient table
    req,            \* the request handled last
    res,            \* the response given to it
    pc,             \* wait_for_db: the statement Command.handle is at
    database,       \* wait_for_db: whether the default database accepts connections
    db_connnection, \* wait_for_db: the local of Command.handle
    stdout          \* wait_for_db: the last lines written to self.stdout

vars == <<recipes, tags, ingredients, nextRecipeId, nextTagId,
          nextIngredientId, req, res, pc, database, db_connnection, stdout>>

db == <<recipes, tags, ingredients, nextRecipeId, nextTagId, nextIngredientId>>

\* The state of the API server, and the state of a run of wait_for_db.
api == <<db, req, res>>
cmd == <<pc, database, db_connnection, stdout>>

(***************************************************************************)
(* Bounds of the model.                                                    *)
(***************************************************************************)
MaxRecipes == 2      \* recipe rows ever created
MaxTags == 2         \* tag rows ever created
MaxIngredients == 2  \* ingredient rows ever created
MaxLen == 2          \* entries of a nested tags / ingredients list
MaxLines == 6        \* lines of self.stdout kept, the latest ones

Users == {"u1", "u2"}
Anonymous == "anonymous"
Names == {"a", "b"}
Titles == {"t1", "t2"}

Absent == <<>>
Some(v) == <<v>>

NoPayload == [title |-> Absent, tags |-> Absent, ingredients |-> Absent, user |-> Absent]

\* The query string of a request: the comma-separated id lists under the
\* keys tags and ingredients, each a sequence of ids, Absent without the key.
NoParams == [tags |-> Absent, ingredients |-> Absent]

\* Recipe.image of a recipe no file was uploaded for.
NoImage == Absent

HTTP_200_OK == 200
HTTP_201_CREATED == 201
HTTP_204_NO_CONTENT == 204
HTTP_400_BAD_REQUEST == 400
HTTP_401_UNAUTHORIZED == 401
HTTP_404_NOT_FOUND == 404
HTTP_500_INTERNAL_SERVER_ERROR == 500

Ops == {"recipe-list", "recipe-retrieve", "recipe-create", "recipe-update",
        "recipe-destroy", "tag-list", "tag-update", "tag-destroy"}

\* A request; params is its query string and file the file part of a
\* multipart body, both empty unless the request is built with them.
Request(op, user, id, partial, payload, name) ==
    [op |-> op, user |-> user, id |-> id, partial |-> partial,
     payload |-> payload, name |-> name, params |-> NoParams, file |-> Absent]

Response(status, data) == [status |-> status, data |-> data]

NoData == <<>>

(***************************************************************************)
(* Querysets.                                                              *)
(***************************************************************************)
RecipeQuerysetAll(rs, user) == DOMAIN rs

\* RecipeViewSet.get_queryset: the ids of the caller's recipes.
RecipeQueryset(rs, user) == {i \in DOMAIN rs : rs[i].user = user}

\* TagViewSet.get_queryset: the ids of the caller's tags.
TagQueryset(tg, user) == {i \in DOMAIN tg : tg[i].user = user}

MaxOf(S) == CHOOSE m \in S : \A x \in S : x <= m
MinOf(S) == CHOOSE m \in S : \A x \in S : m <= x

RECURSIVE OrderByIdAsc(_)
OrderByIdAsc(S) ==
    IF S = {} THEN <<>> ELSE <<MinOf(S)>> \o OrderByIdAsc(S \ {MinOf(S)})

\* order_by('-id')
RECURSIVE OrderByIdDesc(_)
OrderByIdDesc(S) ==
    IF S = {} THEN <<>> ELSE <<MaxOf(S)>> \o OrderByIdDesc(S \ {MaxOf(S)})

(***************************************************************************)
(* Serializers: the wire representation of a row.                          *)
(***************************************************************************)
\* TagSerializer / IngredientSerializer: fields id, name.
NamedRow(rows, i) == [id |-> i, name |-> rows[i].name]

\* RecipeSerializer: id, scalar fields and the nested relations; no user.
RecipeData(rs, tg, ig, i) ==
    [id |-> i,
     title |-> rs[i].title,
     tags |-> {NamedRow(tg, t) : t \in rs[i].tags},
     ingredients |-> {NamedRow(ig, g) : g \in rs[i].ingredients}]

(***************************************************************************)
(* Manager.get_or_create(user=..., name=...): the row matching the         *)
(* lookup, a new row when none matches, MultipleObjectsReturned when       *)
(* several do.                                                             *)
(***************************************************************************)
LookupByNameOnly(rows, user, name) == {i \in DOMAIN rows : rows[i].name = name}

Lookup(rows, user, name) ==
    {i \in DOMAIN rows : rows[i].user = user /\ rows[i].name = name}

get_or_create(rows, next, user, name) ==
    LET m == Lookup(rows, user, name) IN
    IF m = {} THEN
        [rows |-> rows @@ (next :> [user |-> user, name |-> name]),
         next |-> next + 1, obj |-> next, ok |-> TRUE]
    ELSE IF Cardinality(m) = 1 THEN
        [rows |-> rows, next |-> next, obj |-> CHOOSE i \in m : TRUE, ok |-> TRUE]
    ELSE
        [rows |-> rows, next |-> next, obj |-> 0, ok |-> FALSE]

\* The state of a loop over a nested list: the table, its next key, the
\* rows attached to the recipe so far, and whether no exception was raised.
Loop(rows, next, attached) ==
    [rows |-> rows, next |-> next, attached |-> attached, ok |-> TRUE]

\* RecipeSerializer._get_or_create_tags
RECURSIVE get_or_create_tags(_, _, _)
get_or_create_tags(tags_data, auth_user, st) ==
    IF tags_data = <<>> THEN st
    ELSE LET r == get_or_create(st.rows, st.next, auth_user, Head(tags_data)) IN
         IF ~r.ok THEN [st EXCEPT !.ok = FALSE]
         ELSE get_or_create_tags(Tail(tags_data), auth_user,
                                 Loop(r.rows, r.next, st.attached \cup {r.obj}))

\* RecipeSerializer._get_or_create_ingredients
RECURSIVE get_or_create_ingredients(_, _, _)
get_or_create_ingredients(ingredients_data, auth_user, st) ==
    IF ingredients_data = <<>> THEN st
    ELSE LET r == get_or_create(st.rows, st.next, auth_user, Head(ingredients_data)) IN
         IF ~r.ok THEN [st EXCEPT !.ok = FALSE]
         ELSE get_or_create_ingredients(Tail(ingredients_data), auth_user,
                                        Loop(r.rows, r.next, st.attached \cup {r.obj}))

\* Meta.fields: the writable keys of a recipe payload; "user" is not one.
ValidatedDataWithUser(p) == p

ValidatedData(p) == [p EXCEPT !.user = Absent]

\* create: validated_data.pop("tags", []), the same for ingredients
CreateListData(field) == IF field = Absent THEN Some(<<>>) ELSE field

ListDataDefaultEmpty(field) == IF field = Absent THEN Some(<<>>) ELSE field

\* update: validated_data.pop("tags", None), the same for ingredients
UpdateListData(field) == field

\* instance.tags.clear(), instance.ingredients.clear()
Cleared(attached) == {}

\* The rows of a table without row i.
Without(rows, i) == [j \in DOMAIN rows \ {i} |-> rows[j]]

NameRank == ("a" :> 1) @@ ("b" :> 2)

\* order_by('-name'): the orderings of a set of tag ids by descending name.
OrderByNameDesc(tg, S) ==
    {s \in [1..Cardinality(S) -> S] :
        /\ \A i, j \in DOMAIN s : i # j => s[i] # s[j]
        /\ \A i, j \in DOMAIN s :
              i < j => NameRank[tg[s[i]].name] >= NameRank[tg[s[j]].name]}

NoResponse == Response(0, NoData)

NoRequest == Request("none", Anonymous, 0, FALSE, NoPayload, Absent)

\* The values of the local db_connnection of Command.handle.
None == "None"
True == "True"

\* What a database check meets: a database that accepts connections, or
\* one of the two errors the command catches.
DatabaseStates == {"up", "OperationalError", "Psycopg2Error"}

\* The lines Command.handle writes.
Waiting == "Waiting for database..."
Unavailable == "Database unavailable, waiting 1 second..."
Available == "Database available!"

\* Empty tables, no request in hand.
InitApi ==
    /\ recipes = <<>>
    /\ tags = <<>>
    /\ ingredients = <<>>
    /\ nextRecipeId = 1
    /\ nextTagId = 1
    /\ nextIngredientId = 1
    /\ req = NoRequest
    /\ res = NoResponse

\* wait_for_db is about to run: nothing written, db_connnection not yet
\* assigned.
InitCommand ==
    /\ pc = "start"
    /\ db_connnection = None
    /\ stdout = <<>>

\* The API serves requests over a database that is up.
Init ==
    /\ InitApi
    /\ InitCommand
    /\ database = "up"

\* The server handles one request at a time: a handler runs when no
\* response is waiting to be returned.
Idle == req = NoRequest

\* The response is returned to the client.
Respond ==
    /\ ~Idle
    /\ req' = NoRequest
    /\ res' = NoResponse
    /\ UNCHANGED <<db, cmd>>

\* A response that leaves the database as it is.
Reply(status, data) ==
    /\ res' = Response(status, data)
    /\ UNCHANGED db

\* An exception leaves the handler: the response is a server error. When
\* the request runs in one database transaction its writes are undone.
RolledBack == Reply(HTTP_500_INTERNAL_SERVER_ERROR, NoData)

\* GET /recipes/?tags=...&ingredients=...: get_queryset reads no query
\* parameter, the queryset is the caller's recipes whatever params holds.
RecipeListWith(user, params) ==
    /\ req' = [Request("recipe-list", user, 0, FALSE, NoPayload, Absent)
                  EXCEPT !.params = params]
    /\ LET order == OrderByIdDesc(RecipeQueryset(recipes, user)) IN
       Reply(HTTP_200_OK,
             [k \in DOMAIN order |-> RecipeData(recipes, tags, ingredients, order[k])])

\* GET /recipes/
RecipeList(user) == RecipeListWith(user, NoParams)

\* GET /recipes/{id}/
RecipeRetrieve(user, id) ==
    /\ req' = Request("recipe-retrieve", user, id, FALSE, NoPayload, Absent)
    /\ IF id \notin RecipeQueryset(recipes, user)
       THEN Reply(HTTP_404_NOT_FOUND, NoData)
       ELSE Reply(HTTP_200_OK, RecipeData(recipes, tags, ingredients, id))

\* POST /recipes/: perform_create and RecipeSerializer.create
RecipeCreate(user, p) ==
    /\ nextRecipeId <= MaxRecipes
    /\ req' = Request("recipe-create", user, 0, FALSE, p, Absent)
    /\ IF p.title = Absent
       THEN Reply(HTTP_400_BAD_REQUEST, NoData)
       ELSE
         LET v == ValidatedData(p)
             id == nextRecipeId
             tl == get_or_create_tags(CreateListData(v.tags)[1], user,
                                      Loop(tags, nextTagId, {}))
             il == IF tl.ok
                   THEN get_or_create_ingredients(
                            CreateListData(v.ingredients)[1], user,
                            Loop(ingredients, nextIngredientId, {}))
                   ELSE Loop(ingredients, nextIngredientId, {})
             ok == tl.ok /\ il.ok
             row == [user |-> user, title |-> v.title[1], image |-> NoImage,
                     tags |-> tl.attached, ingredients |-> il.attached]
             rs == recipes @@ (id :> row)
         IN
         /\ tl.next - 1 <= MaxTags
         /\ il.next - 1 <= MaxIngredients
         /\ \/ /\ ~ok
               /\ RolledBack
            \/ /\ recipes' = rs
               /\ nextRecipeId' = id + 1
               /\ tags' = tl.rows
               /\ nextTagId' = tl.next
               /\ ingredients' = il.rows
               /\ nextIngredientId' = il.next
               /\ res' = IF ok
                         THEN Response(HTTP_201_CREATED,
                                       RecipeData(rs, tl.rows, il.rows, id))
                         ELSE Response(HTTP_500_INTERNAL_SERVER_ERROR, NoData)

\* PUT, PATCH /recipes/{id}/: RecipeSerializer.update
RecipeUpdate(user, id, partial, p) ==
    /\ req' = Request("recipe-update", user, id, partial, p, Absent)
    /\ IF id \notin RecipeQueryset(recipes, user)
       THEN Reply(HTTP_404_NOT_FOUND, NoData)
       ELSE IF ~partial /\ p.title = Absent
       THEN Reply(HTTP_400_BAD_REQUEST, NoData)
       ELSE
         LET v == ValidatedData(p)
             old == recipes[id]
             tags_data == UpdateListData(v.tags)
             ingredients_data == UpdateListData(v.ingredients)
             tl == IF tags_data # Absent
                   THEN get_or_create_tags(tags_data[1], user,
                            Loop(tags, nextTagId, Cleared(old.tags)))
                   ELSE Loop(tags, nextTagId, old.tags)
             il == IF tl.ok /\ ingredients_data # Absent
                   THEN get_or_create_ingredients(ingredients_data[1], user,
                            Loop(ingredients, nextIngredientId,
                                 Cleared(old.ingredients)))
                   ELSE Loop(ingredients, nextIngredientId, old.ingredients)
             ok == tl.ok /\ il.ok
             row == [user |-> IF ok /\ v.user # Absent THEN v.user[1] ELSE old.user,
                     title |-> IF ok /\ v.title # Absent THEN v.title[1] ELSE old.title,
                     image |-> old.image,
                     tags |-> tl.attached,
                     ingredients |-> il.attached]
             rs == [recipes EXCEPT ![id] = row]
         IN
         /\ tl.next - 1 <= MaxTags
         /\ il.next - 1 <= MaxIngredients
         /\ \/ /\ ~ok
               /\ RolledBack
            \/ /\ recipes' = rs
               /\ tags' = tl.rows
               /\ nextTagId' = tl.next
               /\ ingredients' = il.rows
               /\ nextIngredientId' = il.next
               /\ UNCHANGED nextRecipeId
               /\ res' = IF ok
                         THEN Response(HTTP_200_OK,
                                       RecipeData(rs, tl.rows, il.rows, id))
                         ELSE Response(HTTP_500_INTERNAL_SERVER_ERROR, NoData)

\* DELETE /recipes/{id}/
RecipeDestroy(user, id) ==
    /\ req' = Request("recipe-destroy", user, id, FALSE, NoPayload, Absent)
    /\ IF id \notin RecipeQueryset(recipes, user)
       THEN Reply(HTTP_404_NOT_FOUND, NoData)
       ELSE
         /\ recipes' = Without(recipes, id)
         /\ res' = Response(HTTP_204_NO_CONTENT, NoData)
         /\ UNCHANGED <<tags, ingredients, nextRecipeId, nextTagId, nextIngredientId>>

\* GET /tags/
TagList(user) ==
    /\ req' = Request("tag-list", user, 0, FALSE, NoPayload, Absent)
    /\ \E order \in OrderByNameDesc(tags, TagQueryset(tags, user)) :
          Reply(HTTP_200_OK, [k \in DOMAIN order |-> NamedRow(tags, order[k])])

\* The Tag table declares no uniqueness over (user, name), so the
\* serializer of a tag has no uniqueness validator: every name is accepted.
TagNameAccepted(tg, user, id, name) == TRUE

\* PUT, PATCH /tags/{id}/
TagUpdate(user, id, partial, name) ==
    /\ req' = Request("tag-update", user, id, partial, NoPayload, name)
    /\ IF id \notin TagQueryset(tags, user)
       THEN Reply(HTTP_404_NOT_FOUND, NoData)
       ELSE IF \/ ~partial /\ name = Absent
               \/ name # Absent /\ ~TagNameAccepted(tags, user, id, name[1])
       THEN Reply(HTTP_400_BAD_REQUEST, NoData)
       ELSE
         LET tg == IF name = Absent THEN tags
                   ELSE [tags EXCEPT ![id].name = name[1]] IN
         /\ tags' = tg
         /\ res' = Response(HTTP_200_OK, NamedRow(tg, id))
         /\ UNCHANGED <<recipes, ingredients, nextRecipeId, nextTagId, nextIngredientId>>

\* DELETE /tags/{id}/: the tag row goes, and with it its rows of the
\* recipe-tag association table.
TagDestroy(user, id) ==
    /\ req' = Request("tag-destroy", user, id, FALSE, NoPayload, Absent)
    /\ IF id \notin TagQueryset(tags, user)
       THEN Reply(HTTP_404_NOT_FOUND, NoData)
       ELSE
         /\ tags' = Without(tags, id)
         /\ recipes' = [i \in DOMAIN recipes |->
                           [recipes[i] EXCEPT !.tags = @ \ {id}]]
         /\ res' = Response(HTTP_204_NO_CONTENT, NoData)
         /\ UNCHANGED <<ingredients, nextRecipeId, nextTagId, nextIngredientId>>

AllowAny(user) == TRUE

\* permission_classes = [IsAuthenticated]
IsAuthenticated(user) == user # Anonymous

\* A request without credentials to an endpoint of either viewset: the
\* permission check comes before the handler. Were it to pass, the
\* queryset filter over an anonymous user would raise.
Unauthenticated(op, id) ==
    /\ req' = Request(op, Anonymous, id, FALSE, NoPayload, Absent)
    /\ IF IsAuthenticated(Anonymous)
       THEN Reply(HTTP_500_INTERNAL_SERVER_ERROR, NoData)
       ELSE Reply(HTTP_401_UNAUTHORIZED, NoData)

\* The file parts of a multipart body: none, a JPEG image, a string that
\* is no image.
Uploads == {Absent, Some("jpeg"), Some("notimage")}

\* POST /recipes/{id}/upload-image/: RecipeViewSet declares no
\* upload_image action, so the router of the viewset has no route of this
\* name and the URL resolves to nothing; RecipeImageSerializer is not used.
RecipeUploadImage(user, id, file) ==
    /\ req' = [Request("recipe-upload-image", user, id, FALSE, NoPayload, Absent)
                  EXCEPT !.file = file]
    /\ Reply(HTTP_404_NOT_FOUND, NoData)

RecipeIds == 1..MaxRecipes
TagIds == 1..MaxTags

\* Any request of an authenticated user of U, or one without credentials;
\* the body of a recipe create or update is drawn from P.
Handle(U, P) ==
    \/ \E user \in U : RecipeList(user)
    \/ \E user \in U, id \in RecipeIds : RecipeRetrieve(user, id)
    \/ \E user \in U, p \in P : RecipeCreate(user, p)
    \/ \E user \in U, id \in RecipeIds, partial \in BOOLEAN, p \in P :
          RecipeUpdate(user, id, partial, p)
    \/ \E user \in U, id \in RecipeIds : RecipeDestroy(user, id)
    \/ \E user \in U : TagList(user)
    \/ \E user \in U, id \in TagIds, partial \in BOOLEAN,
          name \in {Absent} \cup {Some(n) : n \in Names} :
          TagUpdate(user, id, partial, name)
    \/ \E user \in U, id \in TagIds : TagDestroy(user, id)
    \/ \E op \in Ops : Unauthenticated(op, 0)

NextOver(U, P) ==
    \/ Idle /\ Handle(U, P) /\ UNCHANGED cmd
    \/ Respond

Lists(N, n) == {Absent} \cup {Some(l) : l \in UNION {[1..k -> N] : k \in 0..n}}

\* Bodies that vary the nested tags list.
TagPayloads ==
    [title : {Some("t1")}, tags : Lists(Names, MaxLen),
     ingredients : {Absent}, user : {Absent}]

\* Bodies that vary both nested lists.
RelationPayloads ==
    [title : {Some("t1")}, tags : Lists({"a"}, 1),
     ingredients : Lists({"a"}, 1), user : {Absent}]

\* Bodies that vary which keys are present.
FramePayloads ==
    [title : {Absent} \cup {Some(t) : t \in Titles}, tags : Lists({"a"}, 1),
     ingredients : Lists({"a"}, 1), user : {Absent}]

\* Bodies that vary the scalar fields and carry a user key.
ScalarPayloads ==
    [title : {Absent} \cup {Some(t) : t \in Titles}, tags : {Absent},
     ingredients : {Absent}, user : {Absent} \cup {Some(u) : u \in Users}]

\* Two users, recipes with nested tags.
Spec == Init /\ [][NextOver(Users, TagPayloads)]_vars

\* Two users, recipes with nested tags and ingredients.
SpecRelations == Init /\ [][NextOver(Users, RelationPayloads)]_vars

\* One user, recipes whose bodies carry any subset of the keys.
SpecFrame == Init /\ [][NextOver({"u1"}, FramePayloads)]_vars

\* Two users, bodies with scalar fields and a user key.
SpecScalars == Init /\ [][NextOver(Users, ScalarPayloads)]_vars

\* A non-empty comma-separated id list of at most n ids, or no such key.
IdLists(n) == {Absent} \cup {Some(l) : l \in UNION {[1..k -> 1..n] : k \in 1..MaxLen}}

\* Query strings with a tags id list, an ingredients id list, both or none.
FilterParams == [tags : IdLists(MaxTags), ingredients : IdLists(MaxIngredients)]

\* Lists with a query string, requests without credentials for any
\* operation and id, and image uploads.
HandleEndpoints ==
    \/ \E user \in Users, params \in FilterParams : RecipeListWith(user, params)
    \/ \E op \in Ops, id \in RecipeIds : Unauthenticated(op, id)
    \/ \E user \in Users, id \in RecipeIds, file \in Uploads :
          RecipeUploadImage(user, id, file)

NextEndpoints ==
    \/ Idle /\ Handle(Users, RelationPayloads) /\ UNCHANGED cmd
    \/ Idle /\ HandleEndpoints /\ UNCHANGED cmd
    \/ Respond

\* Two users, recipes with nested tags and ingredients, filtered lists,
\* anonymous requests and image uploads.
SpecEndpoints == Init /\ [][NextEndpoints]_vars


(***************************************************************************)
(* The wait_for_db management command: Command.handle, one action per      *)
(* statement, and a database that comes up and goes down as it will.       *)
(***************************************************************************)
\* self.stdout.write(line); the model keeps the latest MaxLines lines.
write(out, line) ==
    IF Len(out) < MaxLines THEN Append(out, line) ELSE Append(Tail(out), line)

WhileNotSkipped(conn) == FALSE

\* while not db_connnection
WhileNot(conn) == conn = None

\* self.stdout.write("Waiting for database..."); db_connnection = None
Start ==
    /\ pc = "start"
    /\ stdout' = write(stdout, Waiting)
    /\ db_connnection' = None
    /\ pc' = "while"
    /\ UNCHANGED <<database, api>>

\* The test of the while loop.
While ==
    /\ pc = "while"
    /\ pc' = IF WhileNot(db_connnection) THEN "try" ELSE "report"
    /\ UNCHANGED <<database, db_connnection, stdout, api>>

\* try: self.check(databases=["default"]); db_connnection = True
\* except (OperationalError, Psycopg2Error): self.stdout.write(...)
Try ==
    /\ pc = "try"
    /\ IF database = "up"
       THEN /\ db_connnection' = True
            /\ pc' = "while"
            /\ UNCHANGED stdout
       ELSE /\ stdout' = write(stdout, Unavailable)
            /\ pc' = "sleep"
            /\ UNCHANGED db_connnection
    /\ UNCHANGED <<database, api>>

\* time.sleep(1), still inside the except clause.
Sleep ==
    /\ pc = "sleep"
    /\ pc' = "while"
    /\ UNCHANGED <<database, db_connnection, stdout, api>>

\* self.stdout.write("Database available!"), and handle returns.
Report ==
    /\ pc = "report"
    /\ stdout' = write(stdout, Available)
    /\ pc' = "done"
    /\ UNCHANGED <<database, db_connnection, api>>

\* The database comes up, goes down, or fails another way.
DatabaseChange ==
    /\ \E d \in DatabaseStates \ {database} : database' = d
    /\ UNCHANGED <<pc, db_connnection, stdout, api>>

\* A step of Command.handle.
handle == Start \/ While \/ Try \/ Sleep \/ Report

InitWait ==
    /\ InitApi
    /\ InitCommand
    /\ database \in DatabaseStates

NextWait ==
    \/ Start
    \/ While
    \/ Try
    \/ Sleep
    \/ Report
    \/ DatabaseChange

\* The command runs to its end unless it waits for the database: a
\* statement that can run does run.
SpecWait == InitWait /\ [][NextWait]_vars /\ WF_vars(handle)

(***************************************************************************)
(* Vocabulary of the properties.                                           *)
(***************************************************************************)
Range(l) == {l[k] : k \in DOMAIN l}

\* The rows of a table that user owns under name n.
Owned(rows, user, n) ==
    {i \in DOMAIN rows : rows[i] = [user |-> user, name |-> n]}

\* The rows of a table that user owns under one of the names N.
OwnedAmong(rows, user, N) ==
    {i \in DOMAIN rows : rows[i].user = user /\ rows[i].name \in N}

\* The names a body gives under a relation key; none when the key is absent.
Named(field) == IF field = Absent THEN {} ELSE Range(field[1])

\* This step handles a recipe create that passes validation.
CreateStep ==
    /\ Idle
    /\ req'.op = "recipe-create"
    /\ req'.user \in Users
    /\ req'.payload.title # Absent

\* This step handles a PUT or PATCH of a recipe the caller owns, with a
\* body that passes validation.
UpdateStep ==
    /\ Idle
    /\ req'.op = "recipe-update"
    /\ req'.user \in Users
    /\ req'.id \in DOMAIN recipes
    /\ recipes[req'.id].user = req'.user
    /\ (req'.partial \/ req'.payload.title # Absent)

\* This step handles a detail request for a recipe another user owns.
ForeignDetailStep ==
    /\ Idle
    /\ req'.op \in {"recipe-retrieve", "recipe-update", "recipe-destroy"}
    /\ req'.user \in Users
    /\ req'.id \in DOMAIN recipes
    /\ recipes[req'.id].user # req'.user

(***************************************************************************)
(* C1: after any sequence of operations by any users, every tag and every  *)
(* ingredient attached to a recipe is a row of its table owned by the user *)
(* who owns the recipe.                                                    *)
(***************************************************************************)
C1_AttachedRowsOwnedByRecipeOwner ==
    \A i \in DOMAIN recipes :
        /\ \A t \in recipes[i].tags :
              t \in DOMAIN tags /\ tags[t].user = recipes[i].user
        /\ \A g \in recipes[i].ingredients :
              g \in DOMAIN ingredients /\ ingredients[g].user = recipes[i].user

\* Recipes of two different users, each with a tag and an ingredient.
C1_Witness ==
    \E i, j \in DOMAIN recipes :
        /\ recipes[i].user # recipes[j].user
        /\ recipes[i].tags # {} /\ recipes[i].ingredients # {}
        /\ recipes[j].tags # {} /\ recipes[j].ingredients # {}

(***************************************************************************)
(* C2: creating a recipe with nested names gives a new recipe owned by the *)
(* caller whose tags (ingredients) are exactly the caller's rows with the  *)
(* names of the body, one new row made for each name the caller did not    *)
(* own.                                                                    *)
(***************************************************************************)
C2_CreateAttachesExactlyNamedRows ==
    [][CreateStep =>
        LET u == req'.user
            id == nextRecipeId
            tn == Named(req'.payload.tags)
            gn == Named(req'.payload.ingredients)
        IN
        /\ id \notin DOMAIN recipes
        /\ id \in DOMAIN recipes'
        /\ recipes'[id].user = u
        /\ recipes'[id].tags = OwnedAmong(tags', u, tn)
        /\ recipes'[id].ingredients = OwnedAmong(ingredients', u, gn)
        /\ \A n \in tn : Owned(tags, u, n) = {} =>
              Cardinality(Owned(tags', u, n)) = 1
        /\ \A n \in gn : Owned(ingredients, u, n) = {} =>
              Cardinality(Owned(ingredients', u, n)) = 1
    ]_vars

(***************************************************************************)
(* C3: when a recipe create or update names a tag (ingredient) the caller  *)
(* already owns, the caller owns as many rows of that name afterwards as   *)
(* before, and such a row is attached to the recipe.                       *)
(***************************************************************************)
C3_ExistingRowReused ==
    [][(CreateStep \/ UpdateStep) =>
        LET u == req'.user
            id == IF req'.op = "recipe-create" THEN nextRecipeId ELSE req'.id
        IN
        /\ \A n \in Named(req'.payload.tags) : Owned(tags, u, n) # {} =>
              /\ Cardinality(Owned(tags', u, n)) = Cardinality(Owned(tags, u, n))
              /\ id \in DOMAIN recipes'
              /\ recipes'[id].tags \cap Owned(tags', u, n) # {}
        /\ \A n \in Named(req'.payload.ingredients) :
              Owned(ingredients, u, n) # {} =>
              /\ Cardinality(Owned(ingredients', u, n))
                    = Cardinality(Owned(ingredients, u, n))
              /\ id \in DOMAIN recipes'
              /\ recipes'[id].ingredients \cap Owned(ingredients', u, n) # {}
    ]_vars

(***************************************************************************)
(* C4: in every reachable state there is at most one tag row for any       *)
(* (owner, name) pair.                                                     *)
(***************************************************************************)
C4_TagsUniquePerOwnerAndName ==
    \A i, j \in DOMAIN tags :
        (tags[i].user = tags[j].user /\ tags[i].name = tags[j].name) => i = j

(***************************************************************************)
(* C5: after a recipe update whose body has the tags key, the recipe's     *)
(* tags are exactly the caller's tags with the names of the body; the same *)
(* for the ingredients key.                                                *)
(***************************************************************************)
C5_UpdateReplacesRelation ==
    [][UpdateStep =>
        LET u == req'.user
            id == req'.id
        IN
        /\ req'.payload.tags # Absent =>
              recipes'[id].tags = OwnedAmong(tags', u, Named(req'.payload.tags))
        /\ req'.payload.ingredients # Absent =>
              recipes'[id].ingredients
                 = OwnedAmong(ingredients', u, Named(req'.payload.ingredients))
    ]_vars


(***************************************************************************)
(* C6: a recipe update with an empty tags (ingredients) list leaves the    *)
(* recipe with no association on that relation, leaves the rows of the     *)
(* table as they were, and leaves the associations of every other recipe   *)
(* as they were.                                                           *)
(***************************************************************************)
C6_EmptyListDetachesOnly ==
    [][UpdateStep =>
        LET id == req'.id IN
        /\ req'.payload.tags = Some(<<>>) =>
              /\ recipes'[id].tags = {}
              /\ tags' = tags
              /\ \A j \in DOMAIN recipes \ {id} :
                    j \in DOMAIN recipes' /\ recipes'[j].tags = recipes[j].tags
        /\ req'.payload.ingredients = Some(<<>>) =>
              /\ recipes'[id].ingredients = {}
              /\ ingredients' = ingredients
              /\ \A j \in DOMAIN recipes \ {id} :
                    /\ j \in DOMAIN recipes'
                    /\ recipes'[j].ingredients = recipes[j].ingredients
    ]_vars

(***************************************************************************)
(* C7: a recipe update whose body has no tags key leaves the recipe's tags *)
(* as they were, one with no ingredients key leaves its ingredients as     *)
(* they were, and one with no title key leaves its title as it was.        *)
(***************************************************************************)
C7_AbsentKeysUntouched ==
    [][UpdateStep =>
        LET id == req'.id IN
        /\ req'.payload.tags = Absent => recipes'[id].tags = recipes[id].tags
        /\ req'.payload.ingredients = Absent =>
              recipes'[id].ingredients = recipes[id].ingredients
        /\ req'.payload.title = Absent => recipes'[id].title = recipes[id].title
    ]_vars

\* A PATCH carrying only the tags key was answered: the recipe has the tag
\* of the body, and still has an ingredient and a title no body of this
\* request gave it.
C7_Witness ==
    /\ req.op = "recipe-update"
    /\ req.partial
    /\ req.payload.title = Absent
    /\ req.payload.ingredients = Absent
    /\ req.payload.tags = Some(<<"a">>)
    /\ res.status = HTTP_200_OK
    /\ recipes[req.id].tags # {}
    /\ recipes[req.id].ingredients # {}
    /\ recipes[req.id].title = "t2"

C9_ForeignRecipeNotFound ==
    [][ForeignDetailStep =>
        /\ res'.status = HTTP_404_NOT_FOUND
        /\ req'.id \in DOMAIN recipes'
        /\ recipes'[req'.id] = recipes[req'.id]
        /\ tags' = tags
        /\ ingredients' = ingredients
    ]_vars

\* A delete of another user's recipe was answered 404 and the recipe, with
\* a tag attached, is in place.
C9_Witness ==
    /\ req.op = "recipe-destroy"
    /\ res.status = HTTP_404_NOT_FOUND
    /\ req.id \in DOMAIN recipes
    /\ recipes[req.id].user # req.user
    /\ recipes[req.id].tags # {}

(***************************************************************************)
(* C10: the recipe list returned to an authenticated caller holds exactly  *)
(* the recipes the caller owns, in strictly descending order of id.        *)
(***************************************************************************)
C10_ListScopedAndDescending ==
    (req.op = "recipe-list" /\ req.user \in Users) =>
        LET d == res.data IN
        /\ res.status = HTTP_200_OK
        /\ {d[k].id : k \in DOMAIN d}
              = {i \in DOMAIN recipes : recipes[i].user = req.user}
        /\ \A k \in DOMAIN d : \A m \in DOMAIN d : k < m => d[k].id > d[m].id

\* A list was answered with the caller's recipe while another user's
\* recipe is in the table.
C10_Witness ==
    /\ req.op = "recipe-list"
    /\ req.user \in Users
    /\ DOMAIN res.data # {}
    /\ \E i \in DOMAIN recipes : recipes[i].user # req.user

\* The recipes a query string keeps: those with a tag among the ids of
\* its tags list when it has one, and an ingredient among the ids of its
\* ingredients list when it has one.
Matches(row, params) ==
    /\ params.tags # Absent => row.tags \cap Range(params.tags[1]) # {}
    /\ params.ingredients # Absent =>
          row.ingredients \cap Range(params.ingredients[1]) # {}

(***************************************************************************)
(* C11: the recipe list returned for a query string with a tags id list    *)
(* (an ingredients id list) holds exactly the caller's recipes that have a *)
(* tag (an ingredient) among the given ids; without the key the axis is    *)
(* not restricted.                                                         *)
(***************************************************************************)
C11_ListFilteredByIds ==
    (req.op = "recipe-list" /\ req.user \in Users) =>
        LET d == res.data IN
        {d[k].id : k \in DOMAIN d}
           = {i \in DOMAIN recipes :
                 recipes[i].user = req.user /\ Matches(recipes[i], req.params)}

\* This step handles a request without credentials for an operation of the
\* recipe or tag endpoints.
AnonymousStep ==
    /\ Idle
    /\ req'.op \in Ops
    /\ req'.user = Anonymous

(***************************************************************************)
(* C12: a request without credentials for any recipe or tag operation      *)
(* (list, retrieve, create, update, delete) is answered 401 and leaves     *)
(* every Recipe, Tag and Ingredient row and every association as it was.   *)
(***************************************************************************)
C12_UnauthenticatedRejected ==
    [][AnonymousStep =>
        /\ res'.status = HTTP_401_UNAUTHORIZED
        /\ recipes' = recipes
        /\ tags' = tags
        /\ ingredients' = ingredients
    ]_vars

\* A delete without credentials of a recipe that exists and has a tag and
\* an ingredient was answered 401.
C12_Witness ==
    /\ req.op = "recipe-destroy"
    /\ req.user = Anonymous
    /\ res.status = HTTP_401_UNAUTHORIZED
    /\ req.id \in DOMAIN recipes
    /\ recipes[req.id].tags # {}
    /\ recipes[req.id].ingredients # {}

\* This step handles an image upload for a recipe the caller owns.
UploadStep ==
    /\ Idle
    /\ req'.op = "recipe-upload-image"
    /\ req'.user \in Users
    /\ req'.id \in DOMAIN recipes
    /\ recipes[req'.id].user = req'.user

\* The file part is an image.
IsImage(file) == file = Some("jpeg")

(***************************************************************************)
(* C13: an image upload for a recipe the caller owns is answered 200 with  *)
(* the new image reference, which the recipe then holds, when the file is  *)
(* an image; when the file is no image or is missing it is answered 400    *)
(* and the recipe keeps the image reference it had.                        *)
(***************************************************************************)
C13_ImageUploadAcceptsImagesOnly ==
    [][UploadStep =>
        LET id == req'.id IN
        IF IsImage(req'.file)
        THEN /\ res'.status = HTTP_200_OK
             /\ recipes'[id].image # NoImage
             /\ res'.data = [id |-> id, image |-> recipes'[id].image]
        ELSE /\ res'.status = HTTP_400_BAD_REQUEST
             /\ recipes' = recipes
    ]_vars

====
